---------------------------- MODULE Spec2Model ----------------------------
(***************************************************************************)
(* The audio-conversion-api service: the two FastAPI endpoints of          *)
(* app/main.py (POST /convert, POST /convert_environment_hdri) and the two *)
(* conversion services they call.  Each request is a coroutine; an action  *)
(* is the code one request runs between two suspension points.  The        *)
(* external collaborators (the storage client, ffmpeg, the OpenEXR codec,  *)
(* writes to /tmp) are nondeterministic outcomes.                          *)
(*                                                                         *)
(* Modelling decisions:                                                    *)
(*  - uuid.uuid4() is collision-free: the token of request r is r.         *)
(*  - os.remove / shutil.rmtree raise only when the path is absent.        *)
(*  - the UploadFile handle opened at main.py:93 is a snapshot of the      *)
(*    staged bytes (another request truncating the shared inode while the  *)
(*    service reads it is not modelled).                                   *)
(*  - result_supabase_storage_path and audio_quality do not influence      *)
(*    control flow and are left out.                                       *)
(***************************************************************************)
EXTENDS Integers, Sequences, FiniteSets, TLC

\* ------------------------------------------------------------------ bounds
NReq == 2
Req == 1..NReq

\* ------------------------------------------------------------ file names
MkName(s, e) == [stem |-> s, ext |-> e]
NoName == MkName("", "")

\* str.lower() on the suffixes the model draws from.
Lower(e) ==
  CASE e = ".MP3" -> ".mp3"
    [] e = ".EXR" -> ".exr"
    [] OTHER -> e

\* Path(filename).suffix
Suffix(n) == n.ext

AudioSupportedFormats ==
  {".mp3", ".wav", ".aac", ".m4a", ".wma", ".ogg", ".flac",
   ".alac", ".aiff", ".webm", ".opus", ".mp2"}

HdriSupportedFormatsAll == {".exr", ".png"}
HdriSupportedFormats == {".exr"}

\* convert_supabase_storage_path: the empty string, or dir/stem.ext
MkStoragePath(d, n) == [dir |-> d, name |-> n]
EmptyStoragePath == MkStoragePath("", NoName)
ConvertPaths ==
  { EmptyStoragePath,
    MkStoragePath("a", MkName("x", ".MP3")),
    MkStoragePath("a", MkName("x", ".txt")) }

\* Path(p).name
PathName(p) == p.name

\* `not convert_supabase_storage_path`
IsEmptyPathNever(p) == FALSE
IsEmptyPath(p) == p = EmptyStoragePath

\* the multipart upload of /convert_environment_hdri: file name and byte size
\* (0: empty, 1: not empty)
MkUpload(n, sz) == [name |-> n, size |-> sz]
HdriUploads ==
  { MkUpload(MkName("x", ".EXR"), 1),
    MkUpload(MkName("x", ".exr"), 0),
    MkUpload(MkName("x", ".png"), 1) }

\* ---------------------------------------------------------- scratch paths
MkPath(k, u, n) == [k |-> k, u |-> u, n |-> n]
NoPath == MkPath("none", 0, NoName)
\* uuid.uuid4() of the service call of request r
Uuid(r) == r
\* f"/tmp/{Path(convert_supabase_storage_path).name}"
TempInputPath(p) == MkPath("tmp", 0, PathName(p))
\* f"/tmp/{unique_id}-{input_file.filename}"
InputFilename(u, n) == MkPath("in", u, n)
\* f"/tmp/{unique_id}-converted.mp3"
OutputFilename(u) == MkPath("out", u, NoName)
\* f"/tmp/{unique_id}-output"
OutputDir(u) == MkPath("outdir", u, NoName)
\* os.path.join(output_dir, f"{base_name}_2K_ZIP.exr")
OutputExr(u, n) == MkPath("outdir/exr", u, MkName(n.stem, ".exr"))

\* ------------------------------------------------------------- exceptions
MkExc(t, d) == [type |-> t, detail |-> d]
NoExc == MkExc("", "")

\* ---------------------------------------------------------------- metrics
Metrics == <<"integrated_loudness", "true_peak", "loudness_range", "threshold">>
MetricIdx == 1..4
Unit == <<"LUFS", "dBFS", "LU", "LUFS">>
NA == [tag |-> "N/A", v |-> 0, unit |-> ""]
Float(n) == [tag |-> "float", v |-> n, unit |-> ""]
AllNA == [i \in MetricIdx |-> NA]

\* What the analysis run printed for one metric: nothing the regular
\* expression matches ("absent"), or the text of the matched group.  The texts
\* are numerals in tenths ("-23.5" is -235), or a match of [-\d.]+ that float()
\* rejects ("-", "1.2.3").
Texts == {"absent", "-23.5", "4.0", "-", "1.2.3"}
IsMatch(t) == t # "absent"
FloatRaises(t) == t \in {"-", "1.2.3"}
FloatOf(t) ==
  CASE t = "-23.5" -> -235
    [] t = "4.0" -> 40
    [] OTHER -> 0

\* conversion_service.py:94-121: the four searches in order inside one try;
\* a float() that raises ends the block and leaves the later metrics 'N/A'.
RECURSIVE ParseFrom(_, _, _)
ParseFrom(out, i, data) ==
  IF i > 4 THEN data
  ELSE IF ~IsMatch(out[i]) THEN ParseFrom(out, i + 1, data)
  ELSE IF FloatRaises(out[i]) THEN data
  ELSE ParseFrom(out, i + 1, [data EXCEPT ![i] = Float(FloatOf(out[i]))])

\* (without the try/except of lines 94 and 119 the ValueError would leave
\* the block)
ParseLoudnessNoCatch(out) ==
  IF \E i \in MetricIdx : IsMatch(out[i]) /\ FloatRaises(out[i])
  THEN [ok |-> FALSE, data |-> AllNA]
  ELSE [ok |-> TRUE, data |-> ParseFrom(out, 1, AllNA)]
ParseLoudness(out) == [ok |-> TRUE, data |-> ParseFrom(out, 1, AllNA)]

\* main.py:145-148: f"{value} <unit>" if value != "N/A" else "N/A"
Format(val, i) ==
  IF val # NA THEN [tag |-> "str", v |-> val.v, unit |-> Unit[i]] ELSE NA

NoOutput == [i \in MetricIdx |-> "absent"]
AllOutputs == [MetricIdx -> Texts]
SampleOutputs == { <<"-23.5", "absent", "-", "4.0">> }

\* -------------------------------------------------------------- responses
NoMetrics == [i \in MetricIdx |-> [tag |-> "", v |-> 0, unit |-> ""]]
MkResp(c, s, e, m, f) ==
  [code |-> c, status |-> s, error |-> e, audio_metrics |-> m,
   audio_metrics_formatted |-> f]
NoResp == MkResp(0, "", NoExc, NoMetrics, NoMetrics)
\* main.py:172-182 and 302-312
ErrorResponse(e) == MkResp(500, "error", e, NoMetrics, NoMetrics)
\* FastAPI's answer to an HTTPException that leaves the handler
HttpErrorResponse(c, d) == MkResp(c, "", MkExc("HTTPException", d), NoMetrics, NoMetrics)

\* ----------------------------------------------------------------- state
VARIABLES
  pc,               \* position of each request's coroutine
  kind,             \* "none", "convert", "hdri"
  storage_path,     \* convert_supabase_storage_path of a /convert request
  upload_file,      \* the uploaded file of a /convert_environment_hdri request
  fs,               \* /tmp: existing path -> size (0 empty, 1 not empty)
  temp_input_path,  \* main.py:54,71
  converted_path,   \* main.py:55,98
  temp_files,       \* main.py:226,247 (the pair of paths; <<>> is None)
  loop_bound,       \* conversion_service.py:64: has `loop` been assigned
  loudness_stderr,  \* conversion_service.py:96: loudness_result.stderr, per metric
  loudness_data,    \* conversion_service.py:87
  exc,              \* the exception in flight
  resp,             \* the response of the request
  cleanup_error,    \* the finally block logged "Error during cleanup"
  log,              \* the pipeline steps run for the request, with their outcome
  used              \* the scratch paths the request has written, read or deleted

vars == <<pc, kind, storage_path, upload_file, fs, temp_input_path, converted_path,
          temp_files, loop_bound, loudness_stderr, loudness_data, exc, resp,
          cleanup_error, log, used>>

Exists(p) == p \in DOMAIN fs
\* open(p, "wb") followed by writes that leave sz bytes
WriteFile(f, p, sz) == [q \in (DOMAIN f) \cup {p} |-> IF q = p THEN sz ELSE f[q]]
\* os.remove(p)
RemoveFile(f, p) == [q \in (DOMAIN f) \ {p} |-> f[q]]
\* shutil.rmtree(d)
RemoveTree(f, d) ==
  [q \in {x \in DOMAIN f : ~(x.u = d.u /\ x.k \in {"outdir", "outdir/exr"})} |-> f[q]]

Step(s, ok) == [step |-> s, ok |-> ok]

Init ==
  /\ pc = [r \in Req |-> "idle"]
  /\ kind = [r \in Req |-> "none"]
  /\ storage_path = [r \in Req |-> EmptyStoragePath]
  /\ upload_file = [r \in Req |-> MkUpload(NoName, 0)]
  /\ fs = [q \in {} |-> 0]
  /\ temp_input_path = [r \in Req |-> NoPath]
  /\ converted_path = [r \in Req |-> NoPath]
  /\ temp_files = [r \in Req |-> <<>>]
  /\ loop_bound = [r \in Req |-> FALSE]
  /\ loudness_stderr = [r \in Req |-> NoOutput]
  /\ loudness_data = [r \in Req |-> AllNA]
  /\ exc = [r \in Req |-> NoExc]
  /\ resp = [r \in Req |-> NoResp]
  /\ cleanup_error = [r \in Req |-> FALSE]
  /\ log = [r \in Req |-> <<>>]
  /\ used = [r \in Req |-> {}]

\* ----------------------------------------------------------- bookkeeping
Goto(r, l) == pc' = [pc EXCEPT ![r] = l]
Logged(r, s, ok) == log' = [log EXCEPT ![r] = Append(@, Step(s, ok))]
Raise(r, t, d) == exc' = [exc EXCEPT ![r] = MkExc(t, d)]
Touch(r, p) == used' = [used EXCEPT ![r] = @ \cup {p}]
InFlight(r) == pc[r] \notin {"idle", "done"}

\* ============================================================ POST /convert
\* main.py:192-193 and 328-329: an exception raised by the cleanup is caught
\* and logged; the response already returned by the try or except block stands
CleanupRaisedEscapes(rsp) == HttpErrorResponse(500, "Internal Server Error")
CleanupRaised(rsp) == rsp

\* main.py:189: the second test of the finally block, on the file system f
ConvertFinallyOutput(cp, f) ==
  IF cp # NoPath /\ cp \in DOMAIN f THEN "fin_out_rm" ELSE "done"

\* main.py:183-189: where the finally block first suspends (an os.remove in
\* the executor), or "done" when there is nothing to remove
ConvertFinallyEntry(tip, cp, f) ==
  IF tip # NoPath /\ tip \in DOMAIN f THEN "fin_in_rm" ELSE ConvertFinallyOutput(cp, f)

\* main.py:170-189: an exception of type t raised in the try block, with
\* temp_input_path tip and the file system f at that moment: the except block
\* returns the 500 response and the finally block starts
ConvertFail(r, t, d, tip, f) ==
  /\ Raise(r, t, d)
  /\ resp' = [resp EXCEPT ![r] = ErrorResponse(MkExc(t, d))]
  /\ Goto(r, ConvertFinallyEntry(tip, converted_path[r], f))

\* main.py:42-56
ReceiveConvert(r) ==
  /\ pc[r] = "idle"
  /\ \A q \in Req : q < r => pc[q] # "idle"
  /\ \E p \in ConvertPaths :
       /\ kind' = [kind EXCEPT ![r] = "convert"]
       /\ storage_path' = [storage_path EXCEPT ![r] = p]
       /\ IF IsEmptyPath(p)
          THEN /\ resp' = [resp EXCEPT ![r] =
                     HttpErrorResponse(400, "No convert_supabase_storage_path provided")]
               /\ Goto(r, "done")
          ELSE /\ Goto(r, "download")
               /\ UNCHANGED resp
  /\ UNCHANGED <<upload_file, fs, temp_input_path, converted_path, temp_files,
                 loop_bound, loudness_stderr, loudness_data, exc, cleanup_error, log,
                 used>>

\* main.py:59-68 (and 170-189 when it raises)
Download(r) ==
  /\ pc[r] = "download"
  /\ \E outcome \in {"content", "empty", "raise"} :
       /\ Logged(r, "fetch", outcome = "content")
       /\ CASE outcome = "raise" ->
                 ConvertFail(r, "StorageException", "download failed", NoPath, fs)
            [] outcome = "empty" ->
                 ConvertFail(r, "HTTPException", "400: File not found in supabase",
                             NoPath, fs)
            [] OTHER -> Goto(r, "stage") /\ UNCHANGED <<exc, resp>>
  /\ UNCHANGED <<kind, storage_path, upload_file, fs, temp_input_path, converted_path,
                 temp_files, loop_bound, loudness_stderr, loudness_data, cleanup_error,
                 used>>

\* main.py:70-95 (and 170-189 when it raises)
Stage(r) ==
  /\ pc[r] = "stage"
  /\ LET p == TempInputPath(storage_path[r]) IN
     /\ temp_input_path' = [temp_input_path EXCEPT ![r] = p]
     /\ Touch(r, p)
     /\ \E outcome \in {"ok", "open_fail", "write_fail"} :
          LET f2 == CASE outcome = "ok" -> WriteFile(fs, p, 1)
                      [] outcome = "write_fail" -> WriteFile(fs, p, 0)
                      [] OTHER -> fs
          IN /\ fs' = f2
             /\ Logged(r, "write", outcome = "ok")
             /\ IF outcome # "ok"
                THEN ConvertFail(r, "OSError", "write failed", p, f2)
                ELSE IF p \notin DOMAIN f2
                THEN ConvertFail(r, "HTTPException",
                                 "500: Failed to save temporary file", p, f2)
                ELSE IF f2[p] = 0
                THEN ConvertFail(r, "HTTPException", "400: Downloaded file is empty",
                                 p, f2)
                ELSE Goto(r, "svc_start") /\ UNCHANGED <<exc, resp>>
  /\ UNCHANGED <<kind, storage_path, upload_file, converted_path, temp_files,
                 loop_bound, loudness_stderr, loudness_data, cleanup_error>>

\* conversion_service.py:28-42 (and main.py:170-189 when it raises: the
\* ValueError is raised before the service's try block)
SvcStart(r) ==
  /\ pc[r] = "svc_start"
  /\ IF Lower(Suffix(PathName(storage_path[r]))) \notin AudioSupportedFormats
     THEN /\ ConvertFail(r, "ValueError", "Unsupported file format",
                         temp_input_path[r], fs)
          /\ Logged(r, "save", FALSE)
     ELSE /\ Goto(r, "svc_save")
          /\ UNCHANGED <<exc, resp, log>>
  /\ UNCHANGED <<kind, storage_path, upload_file, fs, temp_input_path, converted_path,
                 temp_files, loop_bound, loudness_stderr, loudness_data, cleanup_error,
                 used>>

\* conversion_service.py:44-64
SvcSave(r) ==
  /\ pc[r] = "svc_save"
  /\ LET p == InputFilename(Uuid(r), PathName(storage_path[r])) IN
     /\ Touch(r, p)
     /\ \E outcome \in {"ok", "open_fail", "write_fail"} :
          LET f2 == CASE outcome = "ok" -> WriteFile(fs, p, 1)
                      [] outcome = "write_fail" -> WriteFile(fs, p, 0)
                      [] OTHER -> fs
              failed == outcome # "ok" \/ p \notin DOMAIN f2 \/ f2[p] = 0
          IN /\ fs' = f2
             /\ Logged(r, "save", ~failed)
             /\ loop_bound' = [loop_bound EXCEPT ![r] = ~failed]
             /\ IF outcome # "ok"
                THEN Raise(r, "OSError", "write failed") /\ Goto(r, "svc_finally")
                ELSE IF p \notin DOMAIN f2
                THEN Raise(r, "ValueError", "Input file was not saved properly")
                     /\ Goto(r, "svc_finally")
                ELSE IF f2[p] = 0
                THEN Raise(r, "ValueError", "Input file is empty")
                     /\ Goto(r, "svc_finally")
                ELSE UNCHANGED exc /\ Goto(r, "svc_analyze")
  /\ UNCHANGED <<kind, storage_path, upload_file, temp_input_path, converted_path,
                 temp_files, loudness_stderr, loudness_data, resp, cleanup_error>>

\* conversion_service.py:66-121 (and 193-196 for a failed run); outputs is the
\* set of diagnostics the analysis run may print
SvcAnalyze(r, outputs) ==
  /\ pc[r] = "svc_analyze"
  /\ \/ /\ Raise(r, "ValueError", "Conversion failed")
        /\ Logged(r, "analyze", FALSE)
        /\ Goto(r, "svc_finally")
        /\ UNCHANGED <<loudness_stderr, loudness_data>>
     \/ \E out \in outputs :
          LET parsed == ParseLoudness(out) IN
          /\ loudness_stderr' = [loudness_stderr EXCEPT ![r] = out]
          /\ loudness_data' = [loudness_data EXCEPT ![r] = parsed.data]
          /\ Logged(r, "analyze", parsed.ok)
          /\ IF parsed.ok
             THEN UNCHANGED exc /\ Goto(r, "svc_transcode")
             ELSE Raise(r, "ValueError", "could not convert string to float")
                  /\ Goto(r, "svc_finally")
  /\ UNCHANGED <<kind, storage_path, upload_file, fs, temp_input_path, converted_path,
                 temp_files, loop_bound, resp, cleanup_error, used>>

\* conversion_service.py:123-168 (and 193-196 for a failed run)
SvcTranscode(r) ==
  /\ pc[r] = "svc_transcode"
  /\ LET p == OutputFilename(Uuid(r)) IN
     /\ Touch(r, p)
     /\ \E outcome \in {"fail_nofile", "fail_partial", "ok", "ok_nofile", "ok_empty"} :
          LET f2 == CASE outcome = "ok" -> WriteFile(fs, p, 1)
                      [] outcome \in {"fail_partial", "ok_empty"} -> WriteFile(fs, p, 0)
                      [] OTHER -> fs
              ran == outcome \in {"ok", "ok_nofile", "ok_empty"}
          IN /\ fs' = f2
             /\ IF ~ran
                THEN Raise(r, "ValueError", "Conversion failed")
                     /\ Logged(r, "transcode", FALSE) /\ Goto(r, "svc_finally")
                ELSE IF p \notin DOMAIN f2
                THEN Raise(r, "ValueError", "Output file was not created")
                     /\ Logged(r, "transcode", FALSE) /\ Goto(r, "svc_finally")
                ELSE IF f2[p] = 0
                THEN Raise(r, "ValueError", "Output file is empty")
                     /\ Logged(r, "transcode", FALSE) /\ Goto(r, "svc_finally")
                ELSE UNCHANGED exc /\ Logged(r, "transcode", TRUE)
                     /\ Goto(r, "svc_verify")
  /\ UNCHANGED <<kind, storage_path, upload_file, temp_input_path, converted_path,
                 temp_files, loop_bound, loudness_stderr, loudness_data, resp,
                 cleanup_error>>

\* conversion_service.py:187-189: does the verification's stderr fail the call
VerifyRejectsNever(stderr) == FALSE
VerifyRejects(stderr) == stderr # ""

\* conversion_service.py:170-191
SvcVerify(r) ==
  /\ pc[r] = "svc_verify"
  /\ \E stderr \in {"", "Header missing"} :
       /\ Logged(r, "verify", stderr = "")
       /\ IF VerifyRejects(stderr)
          THEN Raise(r, "ValueError", "Generated MP3 file is invalid or corrupted")
          ELSE UNCHANGED exc
  /\ Goto(r, "svc_finally")
  /\ UNCHANGED <<kind, storage_path, upload_file, fs, temp_input_path, converted_path,
                 temp_files, loop_bound, loudness_stderr, loudness_data, resp,
                 cleanup_error, used>>

\* conversion_service.py:200-207: os.remove through `loop`; when `loop` was
\* never assigned the UnboundLocalError is caught and logged
SvcCleanup(f, p, bound) ==
  IF p \in DOMAIN f /\ bound THEN RemoveFile(f, p) ELSE f

\* conversion_service.py:191-207, then main.py:98 (the return) or
\* main.py:170-189 (the exception reaches the endpoint)
SvcFinally(r) ==
  /\ pc[r] = "svc_finally"
  /\ LET f2 == SvcCleanup(fs, InputFilename(Uuid(r), PathName(storage_path[r])),
                          loop_bound[r])
     IN /\ fs' = f2
        /\ IF exc[r] = NoExc
           THEN /\ converted_path' = [converted_path EXCEPT ![r] =
                                        OutputFilename(Uuid(r))]
                /\ Goto(r, "upload")
                /\ UNCHANGED <<exc, resp>>
           ELSE /\ UNCHANGED converted_path
                /\ ConvertFail(r, exc[r].type, exc[r].detail, temp_input_path[r], f2)
  /\ UNCHANGED <<kind, storage_path, upload_file, temp_input_path, temp_files,
                 loop_bound, loudness_stderr, loudness_data, cleanup_error, log, used>>

\* main.py:105-127 (and 170-189 when it raises)
ConvertUpload(r) ==
  /\ pc[r] = "upload"
  /\ kind[r] = "convert"
  /\ Touch(r, converted_path[r])
  /\ IF ~Exists(converted_path[r])
     THEN /\ ConvertFail(r, "FileNotFoundError", "No such file or directory",
                         temp_input_path[r], fs)
          /\ UNCHANGED log
     ELSE \E ok \in BOOLEAN :
            /\ Logged(r, "upload", ok)
            /\ IF ok THEN Goto(r, "url") /\ UNCHANGED <<exc, resp>>
               ELSE ConvertFail(r, "StorageException", "upload failed",
                                temp_input_path[r], fs)
  /\ UNCHANGED <<kind, storage_path, upload_file, fs, temp_input_path, converted_path,
                 temp_files, loop_bound, loudness_stderr, loudness_data, cleanup_error>>

\* main.py:129-133 (and 170-189 when it raises)
ConvertPublicUrl(r) ==
  /\ pc[r] = "url"
  /\ kind[r] = "convert"
  /\ \E ok \in BOOLEAN :
       /\ Logged(r, "url", ok)
       /\ IF ok THEN Goto(r, "respond") /\ UNCHANGED <<exc, resp>>
          ELSE ConvertFail(r, "StorageException", "get_public_url failed",
                           temp_input_path[r], fs)
  /\ UNCHANGED <<kind, storage_path, upload_file, fs, temp_input_path, converted_path,
                 temp_files, loop_bound, loudness_stderr, loudness_data, cleanup_error,
                 used>>

\* main.py:135-168, then 183-189
ConvertRespond(r) ==
  /\ pc[r] = "respond"
  /\ kind[r] = "convert"
  /\ LET audio_metrics == [i \in MetricIdx |-> loudness_data[r][i]]
         audio_metrics_formatted == [i \in MetricIdx |-> Format(audio_metrics[i], i)]
     IN resp' = [resp EXCEPT ![r] =
                   MkResp(200, "success", NoExc, audio_metrics, audio_metrics_formatted)]
  /\ Logged(r, "respond", TRUE)
  /\ Goto(r, ConvertFinallyEntry(temp_input_path[r], converted_path[r], fs))
  /\ UNCHANGED <<kind, storage_path, upload_file, fs, temp_input_path, converted_path,
                 temp_files, loop_bound, loudness_stderr, loudness_data, exc,
                 cleanup_error, used>>

\* main.py:188-189: the os.remove of the downloaded input, run in the executor
ConvertFinallyRemoveInput(r) ==
  /\ pc[r] = "fin_in_rm"
  /\ Touch(r, temp_input_path[r])
  /\ IF Exists(temp_input_path[r])
     THEN /\ fs' = RemoveFile(fs, temp_input_path[r])
          /\ Goto(r, ConvertFinallyOutput(converted_path[r], fs))
          /\ UNCHANGED <<resp, cleanup_error>>
     ELSE /\ cleanup_error' = [cleanup_error EXCEPT ![r] = TRUE]
          /\ resp' = [resp EXCEPT ![r] = CleanupRaised(@)]
          /\ Goto(r, "done")
          /\ UNCHANGED fs
  /\ UNCHANGED <<kind, storage_path, upload_file, temp_input_path, converted_path,
                 temp_files, loop_bound, loudness_stderr, loudness_data, exc, log>>

\* main.py:191-193: the os.remove of the converted file, run in the executor
ConvertFinallyRemoveOutput(r) ==
  /\ pc[r] = "fin_out_rm"
  /\ Touch(r, converted_path[r])
  /\ IF Exists(converted_path[r])
     THEN /\ fs' = RemoveFile(fs, converted_path[r])
          /\ UNCHANGED <<resp, cleanup_error>>
     ELSE /\ cleanup_error' = [cleanup_error EXCEPT ![r] = TRUE]
          /\ resp' = [resp EXCEPT ![r] = CleanupRaised(@)]
          /\ UNCHANGED fs
  /\ Goto(r, "done")
  /\ UNCHANGED <<kind, storage_path, upload_file, temp_input_path, converted_path,
                 temp_files, loop_bound, loudness_stderr, loudness_data, exc, log>>

\* ======================================== POST /convert_environment_hdri
\* main.py:324: the second test of the finally block, on the file system f
HdriFinallyDir(tf, f) == IF tf[2] \in DOMAIN f THEN "h_fin_dir_rm" ELSE "done"

\* main.py:313-324: where the finally block first suspends, or "done";
\* tf is temp_files (<<>> for None)
HdriFinallyEntry(tf, f) ==
  IF tf = <<>> THEN "done"
  ELSE IF tf[1] \in DOMAIN f THEN "h_fin_in_rm"
  ELSE HdriFinallyDir(tf, f)

\* main.py:300-324: an exception raised in the try block
HdriFail(r, t, d, tf, f) ==
  /\ Raise(r, t, d)
  /\ resp' = [resp EXCEPT ![r] = ErrorResponse(MkExc(t, d))]
  /\ Goto(r, HdriFinallyEntry(tf, f))

\* main.py:198-227
ReceiveHdri(r) ==
  /\ pc[r] = "idle"
  /\ \A q \in Req : q < r => pc[q] # "idle"
  /\ \E f \in HdriUploads :
       /\ kind' = [kind EXCEPT ![r] = "hdri"]
       /\ upload_file' = [upload_file EXCEPT ![r] = f]
       /\ IF Lower(Suffix(f.name)) \notin HdriSupportedFormats
          THEN /\ resp' = [resp EXCEPT ![r] =
                     MkResp(400, "error", NoExc, NoMetrics, NoMetrics)]
               /\ Goto(r, "done")
               /\ UNCHANGED log
          ELSE /\ Goto(r, "h_save")
               /\ Logged(r, "accept", TRUE)
               /\ UNCHANGED resp
  /\ UNCHANGED <<storage_path, fs, temp_input_path, converted_path, temp_files,
                 loop_bound, loudness_stderr, loudness_data, exc, cleanup_error, used>>

\* environment_hdri_conversion.py:188-199: the service's own cleanup, run
\* when its try block raised
HdriSvcCleanupInputOnly(f, input_filename, output_dir) ==
  IF input_filename \in DOMAIN f THEN RemoveFile(f, input_filename) ELSE f
HdriSvcCleanup(f, input_filename, output_dir) ==
  LET f1 == IF input_filename \in DOMAIN f THEN RemoveFile(f, input_filename) ELSE f
  IN IF output_dir \in DOMAIN f1 THEN RemoveTree(f1, output_dir) ELSE f1

\* environment_hdri_conversion.py:186-199: the file system the service leaves
\* behind: the cleanup is in the except block, so it runs only for a call that
\* raised; a call that returns leaves its files to the endpoint
HdriSvcExitAlways(f, failed, input_filename, output_dir) ==
  HdriSvcCleanup(f, input_filename, output_dir)
HdriSvcExit(f, failed, input_filename, output_dir) ==
  IF failed THEN HdriSvcCleanup(f, input_filename, output_dir) ELSE f

\* environment_hdri_conversion.py:117-145 (and 188-199, main.py:300-324 when
\* it raises)
HdriSave(r) ==
  /\ pc[r] = "h_save"
  /\ LET p == InputFilename(Uuid(r), upload_file[r].name)
         d == OutputDir(Uuid(r))
     IN
     /\ Touch(r, p)
     /\ \E outcome \in {"ok", "open_fail", "write_fail"} :
          LET f2 == CASE outcome = "ok" -> WriteFile(fs, p, upload_file[r].size)
                      [] outcome = "write_fail" -> WriteFile(fs, p, 0)
                      [] OTHER -> fs
              failed == outcome # "ok" \/ p \notin DOMAIN f2 \/ f2[p] = 0
              f3 == HdriSvcExit(f2, failed, p, d)
          IN /\ Logged(r, "save", ~failed)
             /\ fs' = f3
             /\ IF outcome # "ok"
                THEN HdriFail(r, "OSError", "write failed", temp_files[r], f3)
                ELSE IF p \notin DOMAIN f2
                THEN HdriFail(r, "ValueError", "Input file was not saved properly",
                              temp_files[r], f3)
                ELSE IF f2[p] = 0
                THEN HdriFail(r, "ValueError", "Input file is empty", temp_files[r], f3)
                ELSE Goto(r, "h_compress") /\ UNCHANGED <<exc, resp>>
  /\ UNCHANGED <<kind, storage_path, upload_file, temp_input_path, converted_path,
                 temp_files, loop_bound, loudness_stderr, loudness_data, cleanup_error>>

\* environment_hdri_conversion.py:16-93: the output directory is made first;
\* the codec raises before the output file is opened ("raise_early"), after
\* ("raise_late"), or writes it ("ok")
CompressExr(f, output_dir, output_path, outcome) ==
  LET f1 == WriteFile(f, output_dir, 1) IN
  CASE outcome = "ok" -> WriteFile(f1, output_path, 1)
    [] outcome = "raise_late" -> WriteFile(f1, output_path, 0)
    [] OTHER -> f1

\* environment_hdri_conversion.py:156: the .exr files of the output directory
ListExr(f, output_dir) ==
  {q \in DOMAIN f : q.k = "outdir/exr" /\ q.u = output_dir.u /\ q.n.ext = ".exr"}

\* environment_hdri_conversion.py:147-186 and main.py:232-247 (and
\* environment_hdri_conversion.py:188-199, main.py:300-324 when it raises).
\* The service returns only a list that is not empty, so the test of
\* main.py:236 never succeeds.
HdriCompress(r) ==
  /\ pc[r] = "h_compress"
  /\ LET p == InputFilename(Uuid(r), upload_file[r].name)
         d == OutputDir(Uuid(r))
         o == OutputExr(Uuid(r), upload_file[r].name)
     IN
     /\ used' = [used EXCEPT ![r] = @ \cup {p, d, o}]
     /\ \E outcome \in {"ok", "raise_early", "raise_late"} :
          LET f2 == CompressExr(WriteFile(fs, d, 1), d, o, outcome)
              output_files == ListExr(f2, d)
              failed == outcome # "ok" \/ output_files = {}
              f3 == HdriSvcExit(f2, failed, p, d)
          IN /\ Logged(r, "compress", ~failed)
             /\ fs' = f3
             /\ IF outcome # "ok"
                THEN /\ HdriFail(r, "Exception", "EXR compression failed",
                                 temp_files[r], f3)
                     /\ UNCHANGED <<temp_files, converted_path>>
                ELSE IF output_files = {}
                THEN /\ HdriFail(r, "ValueError",
                                 "No output files were generated during compression",
                                 temp_files[r], f3)
                     /\ UNCHANGED <<temp_files, converted_path>>
                ELSE /\ temp_files' = [temp_files EXCEPT ![r] = <<p, d>>]
                     /\ converted_path' = [converted_path EXCEPT ![r] =
                                             CHOOSE q \in output_files : TRUE]
                     /\ Goto(r, "upload")
                     /\ UNCHANGED <<exc, resp>>
  /\ UNCHANGED <<kind, storage_path, upload_file, temp_input_path, loop_bound,
                 loudness_stderr, loudness_data, cleanup_error>>

\* main.py:252-273 (and 300-324 when it raises)
HdriUpload(r) ==
  /\ pc[r] = "upload"
  /\ kind[r] = "hdri"
  /\ Touch(r, converted_path[r])
  /\ IF ~Exists(converted_path[r])
     THEN /\ HdriFail(r, "FileNotFoundError", "No such file or directory",
                      temp_files[r], fs)
          /\ UNCHANGED log
     ELSE \E ok \in BOOLEAN :
            /\ Logged(r, "upload", ok)
            /\ IF ok THEN Goto(r, "url") /\ UNCHANGED <<exc, resp>>
               ELSE HdriFail(r, "StorageException", "upload failed", temp_files[r], fs)
  /\ UNCHANGED <<kind, storage_path, upload_file, fs, temp_input_path, converted_path,
                 temp_files, loop_bound, loudness_stderr, loudness_data, cleanup_error>>

\* main.py:275-286 (and 300-324 when it raises)
HdriPublicUrl(r) ==
  /\ pc[r] = "url"
  /\ kind[r] = "hdri"
  /\ \E ok \in BOOLEAN :
       /\ Logged(r, "url", ok)
       /\ IF ok THEN Goto(r, "respond") /\ UNCHANGED <<exc, resp>>
          ELSE HdriFail(r, "StorageException", "get_public_url failed",
                        temp_files[r], fs)
  /\ UNCHANGED <<kind, storage_path, upload_file, fs, temp_input_path, converted_path,
                 temp_files, loop_bound, loudness_stderr, loudness_data, cleanup_error,
                 used>>

\* main.py:288-298, then 313-324
HdriRespond(r) ==
  /\ pc[r] = "respond"
  /\ kind[r] = "hdri"
  /\ resp' = [resp EXCEPT ![r] = MkResp(200, "success", NoExc, NoMetrics, NoMetrics)]
  /\ Logged(r, "respond", TRUE)
  /\ Goto(r, HdriFinallyEntry(temp_files[r], fs))
  /\ UNCHANGED <<kind, storage_path, upload_file, fs, temp_input_path, converted_path,
                 temp_files, loop_bound, loudness_stderr, loudness_data, exc,
                 cleanup_error, used>>

\* main.py:322-324: the os.remove of the staged input, run in the executor
HdriFinallyRemoveInput(r) ==
  /\ pc[r] = "h_fin_in_rm"
  /\ IF Exists(temp_files[r][1])
     THEN /\ fs' = RemoveFile(fs, temp_files[r][1])
          /\ Goto(r, HdriFinallyDir(temp_files[r], fs))
          /\ UNCHANGED <<resp, cleanup_error>>
     ELSE /\ cleanup_error' = [cleanup_error EXCEPT ![r] = TRUE]
          /\ resp' = [resp EXCEPT ![r] = CleanupRaised(@)]
          /\ Goto(r, "done")
          /\ UNCHANGED fs
  /\ UNCHANGED <<kind, storage_path, upload_file, temp_input_path, converted_path,
                 temp_files, loop_bound, loudness_stderr, loudness_data, exc, log, used>>

\* main.py:326-329: the rmtree of the output directory, run in the executor
HdriFinallyRemoveDir(r) ==
  /\ pc[r] = "h_fin_dir_rm"
  /\ IF Exists(temp_files[r][2])
     THEN /\ fs' = RemoveTree(fs, temp_files[r][2])
          /\ UNCHANGED <<resp, cleanup_error>>
     ELSE /\ cleanup_error' = [cleanup_error EXCEPT ![r] = TRUE]
          /\ resp' = [resp EXCEPT ![r] = CleanupRaised(@)]
          /\ UNCHANGED fs
  /\ Goto(r, "done")
  /\ UNCHANGED <<kind, storage_path, upload_file, temp_input_path, converted_path,
                 temp_files, loop_bound, loudness_stderr, loudness_data, exc, log, used>>

\* ---------------------------------------------------------- specification
\* one step of request r; outputs bounds what the loudness analysis may print
Handle(r, outputs) ==
  \/ ReceiveConvert(r)
  \/ Download(r)
  \/ Stage(r)
  \/ SvcStart(r)
  \/ SvcSave(r)
  \/ SvcAnalyze(r, outputs)
  \/ SvcTranscode(r)
  \/ SvcVerify(r)
  \/ SvcFinally(r)
  \/ ConvertUpload(r)
  \/ ConvertPublicUrl(r)
  \/ ConvertRespond(r)
  \/ ConvertFinallyRemoveInput(r)
  \/ ConvertFinallyRemoveOutput(r)
  \/ ReceiveHdri(r)
  \/ HdriSave(r)
  \/ HdriCompress(r)
  \/ HdriUpload(r)
  \/ HdriPublicUrl(r)
  \/ HdriRespond(r)
  \/ HdriFinallyRemoveInput(r)
  \/ HdriFinallyRemoveDir(r)

Next == \E r \in Req : Handle(r, SampleOutputs)

Spec == Init /\ [][Next]_vars

\* One /convert or /convert_environment_hdri request at a time, with every
\* diagnostic text the loudness analysis may print.
NextLoudness == Handle(1, AllOutputs)

SpecLoudness == Init /\ [][NextLoudness]_vars

\* ================================================================= claims
Done(r) == pc[r] = "done"
ConvertName(r) == PathName(storage_path[r])
\* the finally block of the endpoint has been entered, or left
AfterTry(r) ==
  pc[r] \in {"fin_in_rm", "fin_out_rm", "h_fin_in_rm", "h_fin_dir_rm", "done"}
\* the request passed the endpoint's validation
Entered(r) == log[r] # <<>>
HasStep(r, s, ok) == \E i \in 1..Len(log[r]) : log[r][i] = Step(s, ok)
SharesTempPath(r) ==
  \E q \in Req \ {r} : TempInputPath(storage_path[r]) \in used[q]

\* C1: once a POST /convert request that passed the empty-path check has
\* finished, none of its scratch files exists: the service's copy
\* /tmp/<uuid>-<filename>, the converted output /tmp/<uuid>-converted.mp3 and
\* the downloaded input /tmp/<basename> (the last one is left aside when
\* another request staged the same path, which is C4's subject).
C1_NoScratchLeft ==
  \A r \in Req :
    (Done(r) /\ kind[r] = "convert" /\ storage_path[r] # EmptyStoragePath) =>
      /\ ~Exists(InputFilename(Uuid(r), ConvertName(r)))
      /\ ~Exists(OutputFilename(Uuid(r)))
      /\ (SharesTempPath(r) \/ ~Exists(TempInputPath(storage_path[r])))

\* C2: once a POST /convert_environment_hdri request has finished, on every
\* exit path, neither its staged input /tmp/<uuid>-<filename> nor its output
\* directory /tmp/<uuid>-output (nor a file in it) exists.
C2_HdriNoScratchLeft ==
  \A r \in Req :
    (Done(r) /\ kind[r] = "hdri") =>
      \A p \in DOMAIN fs : ~(p.u = Uuid(r) /\ p.k \in {"in", "outdir", "outdir/exr"})

\* a finished HDRI request that staged its input, wrote its output directory
\* and uploaded the result
C2_Witness ==
  \E r \in Req :
    /\ Done(r) /\ kind[r] = "hdri" /\ resp[r].code = 200
    /\ OutputDir(Uuid(r)) \in used[r]
    /\ InputFilename(Uuid(r), upload_file[r].name) \in used[r]

\* the order of the steps of one request
Order(k) ==
  IF k = "convert"
  THEN <<"fetch", "write", "save", "analyze", "transcode", "verify",
         "upload", "url", "respond">>
  ELSE <<"accept", "save", "compress", "upload", "url", "respond">>

\* C3: the steps of a request run in the fixed order fetch/accept, write
\* scratch file, convert, upload, resolve URL, respond; a step runs only if
\* every earlier step succeeded, so no upload is issued for a request whose
\* conversion did not complete.
C3_LinearPipeline ==
  \A r \in Req :
    /\ Len(log[r]) <= Len(Order(kind[r]))
    /\ \A i \in 1..Len(log[r]) :
         /\ log[r][i].step = Order(kind[r])[i]
         /\ \A j \in 1..(i - 1) : log[r][j].ok

\* an upload was issued after a complete conversion, while another request
\* ended at a failed conversion step without any upload
C3_Witness ==
  /\ \E r \in Req : kind[r] = "convert" /\ HasStep(r, "upload", TRUE)
  /\ \E r \in Req : Done(r) /\ HasStep(r, "verify", FALSE)

\* C4: two requests in flight at the same time use disjoint sets of scratch
\* paths.
C4_DisjointScratchPaths ==
  \A r1, r2 \in Req :
    (r1 # r2 /\ InFlight(r1) /\ InFlight(r2)) => used[r1] \cap used[r2] = {}

\* C5: a POST /convert whose download returned no content is answered with
\* HTTP 400, and nothing is converted or uploaded.
C5_EmptyDownload400 ==
  \A r \in Req :
    (AfterTry(r) /\ kind[r] = "convert"
       /\ exc[r] = MkExc("HTTPException", "400: File not found in supabase")) =>
      /\ resp[r].code = 400
      /\ log[r] = <<Step("fetch", FALSE)>>

\* C6: a POST /convert_environment_hdri whose lower-cased extension is not
\* '.exr' is answered 400 with status 'error'; no scratch file is written,
\* the codec is not invoked and nothing is uploaded.
C6_UnsupportedHdriRejected ==
  \A r \in Req :
    (kind[r] = "hdri" /\ Lower(Suffix(upload_file[r].name)) # ".exr") =>
      /\ Done(r)
      /\ resp[r].code = 400 /\ resp[r].status = "error"
      /\ log[r] = <<>>
      /\ used[r] = {}
      /\ \A p \in DOMAIN fs : p.u # Uuid(r)

\* a rejected .png upload beside an accepted upper-case .EXR upload
C6_Witness ==
  /\ \E r \in Req : kind[r] = "hdri" /\ Suffix(upload_file[r].name) = ".png" /\ Done(r)
  /\ \E r \in Req : kind[r] = "hdri" /\ Suffix(upload_file[r].name) = ".EXR"
                    /\ HasStep(r, "compress", TRUE)

\* C7: a POST /convert with an empty convert_supabase_storage_path is
\* rejected with HTTP 400 before any download, scratch file or external tool.
C7_EmptyPathRejected ==
  \A r \in Req :
    (kind[r] = "convert" /\ storage_path[r] = EmptyStoragePath) =>
      /\ Done(r)
      /\ resp[r].code = 400
      /\ log[r] = <<>>
      /\ used[r] = {}
      /\ temp_input_path[r] = NoPath

C7_Witness ==
  \E r \in Req : kind[r] = "convert" /\ storage_path[r] = EmptyStoragePath /\ Done(r)

\* C8: a request that entered the pipeline has, from the end of its try
\* block on, exactly the response its steps determine: 200 'success' when
\* every step up to the public URL succeeded, 500 'error' with the type and
\* detail of the exception when a step raised; a failed cleanup leaves it
\* unchanged, and nothing escapes the handler.
C8_OneResponse ==
  \A r \in Req :
    (Entered(r) /\ AfterTry(r)) =>
      /\ resp[r].code \in {200, 500}
      /\ resp[r].code = 200 =>
           /\ resp[r].status = "success"
           /\ HasStep(r, "upload", TRUE) /\ HasStep(r, "url", TRUE)
           /\ exc[r] = NoExc
      /\ (\E i \in 1..Len(log[r]) : ~log[r][i].ok) =>
           /\ exc[r].type # ""
           /\ resp[r] = ErrorResponse(exc[r])
      /\ (\A i \in 1..Len(log[r]) : log[r][i].ok) => resp[r].code = 200

\* a successful request that finished after its cleanup raised (another
\* request had removed the shared /tmp/<basename> first), beside a failed one
C8_Witness ==
  /\ \E r \in Req : Done(r) /\ cleanup_error[r] /\ resp[r].code = 200
  /\ \E r \in Req : Done(r) /\ resp[r].code = 500 /\ resp[r].error.type = "ValueError"

\* the service call of request r has returned or raised
SvcLeft(r) ==
  /\ kind[r] = "convert"
  /\ InputFilename(Uuid(r), ConvertName(r)) \in used[r]
  /\ pc[r] \notin {"svc_save", "svc_analyze", "svc_transcode", "svc_verify", "svc_finally"}

\* C9: AudioConversionService.convert_audio removes its staged input copy
\* /tmp/<uuid>-<filename> on every exit from its try block.
C9_SvcRemovesInput ==
  \A r \in Req : SvcLeft(r) => ~Exists(InputFilename(Uuid(r), ConvertName(r)))

\* C10: a diagnostic that is missing or does not parse never fails the
\* request (the analysis step fails only when the analysis run itself
\* failed); each metric of the response is 'N/A' or the number parsed from
\* the text matched for it, and its formatted entry is that number with the
\* metric's unit exactly when the metric is a number, 'N/A' otherwise.
C10_MetricsNumberOrNA ==
  \A r \in Req :
    /\ HasStep(r, "analyze", FALSE) => exc[r] = MkExc("ValueError", "Conversion failed")
    /\ (kind[r] = "convert" /\ resp[r].code = 200) =>
         \A i \in MetricIdx :
           LET m == resp[r].audio_metrics[i]
               f == resp[r].audio_metrics_formatted[i]
               t == loudness_stderr[r][i]
           IN /\ \/ m = NA
                 \/ /\ IsMatch(t) /\ ~FloatRaises(t)
                    /\ m = Float(FloatOf(t))
              /\ m = NA => f = NA
              /\ m # NA => f = [tag |-> "str", v |-> m.v, unit |-> Unit[i]]

\* a successful response after an analysis that printed one parsable metric,
\* one that float() rejects and one missing
C10_Witness ==
  \E r \in Req :
    /\ kind[r] = "convert" /\ resp[r].code = 200
    /\ loudness_stderr[r] = <<"-23.5", "absent", "-", "4.0">>
    /\ resp[r].audio_metrics[1] = Float(-235)
    /\ resp[r].audio_metrics[4] = NA

\* the service call of HDRI request r raised
HdriSvcFailed(r) ==
  kind[r] = "hdri" /\ (HasStep(r, "save", FALSE) \/ HasStep(r, "compress", FALSE))
\* the service call of HDRI request r returned
HdriSvcReturned(r) == kind[r] = "hdri" /\ HasStep(r, "compress", TRUE)
\* the endpoint of request r is between the return of the service and the
\* end of its last upload attempt
HdriUploading(r) == kind[r] = "hdri" /\ pc[r] \in {"upload", "url", "respond"}

\* C11: EnvironmentHdriConversionService.convert removes its staged input
\* and its output directory itself exactly when it raises: after a failed
\* call nothing of the request is left and no temp_files reach the endpoint;
\* after a successful call temp_files names the input and the directory, and
\* both, with the converted file, stay in place until the endpoint's upload
\* attempts are over: the endpoint's finally block finds them still there
\* and is the only code that removes them.
C11_HdriCleanupOwnership ==
  \A r \in Req :
    LET input_file == InputFilename(Uuid(r), upload_file[r].name)
        output_dir == OutputDir(Uuid(r))
    IN
    /\ HdriSvcFailed(r) =>
         /\ temp_files[r] = <<>>
         /\ ~Exists(input_file) /\ ~Exists(output_dir)
         /\ \A p \in DOMAIN fs : ~(p.u = Uuid(r) /\ p.k = "outdir/exr")
    /\ HdriSvcReturned(r) =>
         /\ temp_files[r] = <<input_file, output_dir>>
         /\ converted_path[r] = OutputExr(Uuid(r), upload_file[r].name)
    /\ HdriUploading(r) =>
         /\ HdriSvcReturned(r)
         /\ Exists(input_file) /\ Exists(output_dir) /\ Exists(converted_path[r])
    /\ (kind[r] = "hdri" /\ pc[r] = "h_fin_in_rm") =>
         /\ ~HdriUploading(r)
         /\ Exists(input_file) /\ Exists(output_dir) /\ Exists(converted_path[r])
    /\ (kind[r] = "hdri" /\ pc[r] = "h_fin_dir_rm") =>
         /\ ~Exists(input_file)
         /\ Exists(output_dir) /\ Exists(converted_path[r])

\* an HDRI request in the middle of its upload (the upload call returned,
\* the public URL is still to be resolved) while another HDRI request has
\* finished after its compression raised
C11_Witness ==
  /\ \E r \in Req : HdriUploading(r) /\ pc[r] = "url" /\ HasStep(r, "upload", TRUE)
  /\ \E r \in Req : Done(r) /\ HdriSvcFailed(r) /\ HasStep(r, "compress", FALSE)
                    /\ OutputDir(Uuid(r)) \in used[r]
====
